---- MODULE Spec2Model ----
(***************************************************************************)
(* A model of user_upload.js: one invocation connects to MySQL, then       *)
(* either creates the users table, or streams a CSV file through the       *)
(* normaliser and inserts the accepted records, or prints usage; finally   *)
(* the connection is ended.  Strings are sequences of one-character        *)
(* strings; the users table persists from one invocation to the next.      *)
(***************************************************************************)
EXTENDS Integers, Sequences, FiniteSets, TLC

(* ---------------------------- bounds ----------------------------------- *)

\* the longest email a call of validateEmail on its own is given
MaxEmailLen == 5
\* the longest string a call of capitalize on its own is given
MaxNameLen == 3
\* the longest CSV file (number of data rows) an invocation reads
MaxRows == 3
\* the number of invocations of the script in one behaviour
MaxRuns == 3

(* ---------------------------- characters ------------------------------- *)

LowerLetters == {"a", "b", "c"}
UpperLetters == {"A", "B", "C"}
Whitespace == {" "}

\* String.prototype.toUpperCase on one character (a string: one character
\* can become two, as the sharp s does)
CharToUpperCase(c) ==
  CASE c = "a" -> <<"A">>
    [] c = "b" -> <<"B">>
    [] c = "c" -> <<"C">>
    [] c = "s" -> <<"S">>
    [] c = "ß" -> <<"S", "S">>
    [] OTHER -> <<c>>

\* String.prototype.toLowerCase on one character
CharToLowerCase(c) ==
  CASE c = "A" -> <<"a">>
    [] c = "B" -> <<"b">>
    [] c = "C" -> <<"c">>
    [] c = "S" -> <<"s">>
    [] OTHER -> <<c>>

RECURSIVE toUpperCase(_)
toUpperCase(s) ==
  IF s = <<>> THEN <<>> ELSE CharToUpperCase(Head(s)) \o toUpperCase(Tail(s))

RECURSIVE toLowerCase(_)
toLowerCase(s) ==
  IF s = <<>> THEN <<>> ELSE CharToLowerCase(Head(s)) \o toLowerCase(Tail(s))

\* str.charAt(0): the first character, or the empty string
charAt0(s) == IF s = <<>> THEN <<>> ELSE <<Head(s)>>

\* str.slice(1): everything after the first character
slice1(s) == IF s = <<>> THEN <<>> ELSE Tail(s)

\* the value of a column the CSV header does not name
Undefined == <<"undefined">>

(* ---------------------------- pure functions --------------------------- *)

\* capitalize without the lower-casing of the rest
capitalize_keepRest(str) == toUpperCase(charAt0(str)) \o slice1(str)

\* capitalize, for a defined string (on undefined it throws: see Throws)
capitalize(str) == toUpperCase(charAt0(str)) \o toLowerCase(slice1(str))

\* [^\s@]
NotSpaceNorAt(c) == c \notin Whitespace /\ c # "@"

\* the regular expression without its \.[^\s@]+ : /^[^\s@]+@[^\s@]+$/
emailRegexTest_noTld(email) ==
  \E i \in 1..Len(email) :
     /\ email[i] = "@"
     /\ 1 < i
     /\ i < Len(email)
     /\ \A k \in 1..Len(email) : k # i => NotSpaceNorAt(email[k])

\* /^[^\s@]+@[^\s@]+\.[^\s@]+$/.test(email)
emailRegexTest(email) ==
  \E i \in 1..Len(email) : \E j \in 1..Len(email) :
     /\ email[i] = "@"
     /\ email[j] = "."
     /\ 1 < i
     /\ i + 1 < j
     /\ j < Len(email)
     /\ \A k \in 1..Len(email) : (k # i /\ k # j) => NotSpaceNorAt(email[k])

\* email.split('@')[1]: what lies between the first '@' and the next one
\* (or the end); Undefined when there is no '@'
SplitAt1(email) ==
  LET ats == {i \in 1..Len(email) : email[i] = "@"}
  IN IF ats = {} THEN Undefined
     ELSE LET first == CHOOSE i \in ats : \A k \in ats : i <= k
              rest == {k \in ats : k > first}
              stop == IF rest = {} THEN Len(email) + 1
                      ELSE CHOOSE i \in rest : \A k \in rest : i <= k
          IN SubSeq(email, first + 1, stop - 1)

\* s.includes('.')
IncludesDot(s) == \E i \in 1..Len(s) : s[i] = "."

validateEmail(email) ==
  emailRegexTest(email) /\ IncludesDot(SplitAt1(email))

(* ---------------------------- inputs ----------------------------------- *)

Row(n, s, e) == [name |-> n, surname |-> s, email |-> e]

\* the rows a CSV file is made of: what csv() emits for one data line
RowPool ==
  { Row(<<"a", "B">>, <<"B", "a">>, <<"A", "@", "b", ".", "c">>),
    Row(<<"b">>, <<"c">>, <<"a", "@", "B", ".", "c">>),
    Row(<<"c">>, <<"a">>, <<"a", "@", "b">>),
    Row(<<>>, <<"b">>, <<"b", "@", "c", ".", "a">>),
    Row(Undefined, <<"b">>, <<"c", "@", "a", ".", "b">>) }

\* the command lines: --create_table, --file (given or not), --dry_run
Argvs == [create_table : BOOLEAN, file : BOOLEAN, dry_run : BOOLEAN]

NoUser == Row(<<>>, <<>>, <<>>)

(* ---------------------------- state ------------------------------------ *)

VARIABLES
  argv,            \* the parsed command line of the running invocation
  pc,              \* where main is: idle, connecting, main_try, streaming,
                   \* inserting, finally, exited
  exit,            \* how the process ended: none, ok, connect_failed,
                   \* uncaught_exception, unhandled_rejection
  conn,            \* the connection: none, open, closed
  connectAttempts, \* calls of mysql.createConnection in this invocation
  endCalls,        \* calls of connection.end() in this invocation
  tableExists,     \* whether user_upload_db.users exists
  usersTable,      \* its rows, in insertion order
  autoInc,         \* its AUTO_INCREMENT counter
  existsAtStart,   \* tableExists when the invocation started
  rowsAtStart,     \* usersTable when the invocation started
  consumed,        \* the rows the 'data' handler has been called with
  results,         \* processCSVFile's results array
  idx,             \* insertDataIntoDB's position in users (1-based)
  promise,         \* processCSVFile's promise: none, pending, resolved, rejected
  thrown,          \* whether an exception is propagating out of main's try
  streamErr,       \* the 'error' event of this invocation: none, source (the
                   \* fs read stream's), parser (the csv() stream's)
  stmts,           \* the statements issued on the connection, in order
  log,             \* console output of this invocation
  runs,            \* invocations started so far
  file,            \* the CSV file a pair of invocations reads (its rows)
  prevResults,     \* results of the first invocation of a pair, at its end
  input,           \* the string a function is called with on its own
  rets             \* the values the calls of that function returned

vars ==
  << argv, pc, exit, conn, connectAttempts, endCalls, tableExists, usersTable,
     autoInc, existsAtStart, rowsAtStart, consumed, results, idx, promise,
     thrown, streamErr, stmts, log, runs, file, prevResults, input, rets >>

aux == << file, prevResults, input, rets >>
db == << tableExists, usersTable, autoInc >>
snapshot == << existsAtStart, rowsAtStart >>
stream == << consumed, results, streamErr >>

\* a console line: the text, the value interpolated into it, and the
\* error.message appended to it ("none" when there is none)
Entry(level, msg, arg) == [level |-> level, msg |-> msg, arg |-> arg, err |-> "none"]
ErrorEntry(msg, arg, err) == [level |-> "error", msg |-> msg, arg |-> arg, err |-> err]
Stmt(op, user, err) == [op |-> op, user |-> user, err |-> err]

\* no invocation has run yet
ProgramIdle ==
  /\ argv = [create_table |-> FALSE, file |-> FALSE, dry_run |-> FALSE]
  /\ pc = "idle"
  /\ exit = "none"
  /\ conn = "none"
  /\ connectAttempts = 0
  /\ endCalls = 0
  /\ tableExists \in BOOLEAN
  /\ usersTable = <<>>
  /\ autoInc = 1
  /\ existsAtStart = tableExists
  /\ rowsAtStart = <<>>
  /\ consumed = <<>>
  /\ results = <<>>
  /\ idx = 1
  /\ promise = "none"
  /\ thrown = FALSE
  /\ streamErr = "none"
  /\ stmts = <<>>
  /\ log = <<>>
  /\ runs = 0

Init ==
  /\ ProgramIdle
  /\ file = <<>>
  /\ prevResults = <<>>
  /\ input = <<>>
  /\ rets = <<>>

(* ---------------------------- the database ----------------------------- *)

Emails(table) == {table[i].email : i \in 1..Len(table)}

\* DROP TABLE then CREATE TABLE: the rebuild the README describes
CreateTable_rebuild(exists, table) == <<>>

\* CREATE TABLE IF NOT EXISTS users (...): the rows afterwards
CreateTableIfNotExists(exists, table) == IF exists THEN table ELSE <<>>

\* the ways the CREATE TABLE IF NOT EXISTS statement can end: "none" is
\* success, "other" a database error (privileges, a lost connection); with
\* IF NOT EXISTS an existing table is no error ("exists")
CreateOutcomes(exists) == {"none", "other"}

\* the insert's outcomes were email not UNIQUE
InsertOutcomes_noUnique(exists, table, user) ==
  IF ~exists THEN {"no_table", "other"} ELSE {"none", "other"}

\* the ways INSERT INTO users can end for one user: "none" is success,
\* "dup" the violation of email's UNIQUE, "no_table" a missing table,
\* "other" any other database error
InsertOutcomes(exists, table, user) ==
  IF ~exists THEN {"no_table", "other"}
  ELSE IF user.email \in Emails(table) THEN {"dup", "other"}
  ELSE {"none", "other"}

(* ---------------------------- the script ------------------------------- *)

\* the start of a process: the command line is parsed, nothing has run
Start(a) ==
  /\ runs' = runs + 1
  /\ argv' = a
  /\ pc' = "connecting"
  /\ exit' = "none"
  /\ conn' = "none"
  /\ connectAttempts' = 0
  /\ endCalls' = 0
  /\ existsAtStart' = tableExists
  /\ rowsAtStart' = usersTable
  /\ consumed' = <<>>
  /\ results' = <<>>
  /\ idx' = 1
  /\ promise' = "none"
  /\ thrown' = FALSE
  /\ streamErr' = "none"
  /\ stmts' = <<>>
  /\ log' = <<>>
  /\ UNCHANGED db

\* a new invocation of the script, with its command line
Invoke(a) ==
  /\ pc \in {"idle", "exited"}
  /\ runs < MaxRuns
  /\ Start(a)
  /\ UNCHANGED aux

\* connectToDatabase: createConnection resolves
ConnectOk ==
  /\ pc = "connecting"
  /\ connectAttempts' = connectAttempts + 1
  /\ conn' = "open"
  /\ pc' = "main_try"
  /\ UNCHANGED << argv, exit, endCalls, db, snapshot, stream, idx, promise,
                  thrown, stmts, log, runs, aux >>

\* connectToDatabase without process.exit(1): it returns undefined to main
ConnectFail_noExit ==
  /\ pc = "connecting"
  /\ connectAttempts' = connectAttempts + 1
  /\ log' = Append(log, Entry("error", "Error connecting to the database:", <<>>))
  /\ pc' = "main_try"
  /\ UNCHANGED << argv, exit, conn, endCalls, db, snapshot, stream, idx,
                  promise, thrown, stmts, runs, aux >>

\* connectToDatabase: createConnection rejects: log, process.exit(1)
ConnectFail ==
  /\ pc = "connecting"
  /\ connectAttempts' = connectAttempts + 1
  /\ log' = Append(log, Entry("error", "Error connecting to the database:", <<>>))
  /\ pc' = "exited"
  /\ exit' = "connect_failed"
  /\ UNCHANGED << argv, conn, endCalls, db, snapshot, stream, idx, promise,
                  thrown, stmts, runs, aux >>

\* the process's exit status: 0 when main returns; 1 from process.exit(1),
\* from an uncaught exception and from an unhandled rejection
ExitCode(e) == IF e = "ok" THEN 0 ELSE 1

\* main with the two tests in the other order
Branch_fileFirst(a) ==
  IF a.file THEN "file" ELSE IF a.create_table THEN "create" ELSE "usage"

\* main's if / else if / else
Branch(a) ==
  IF a.create_table THEN "create" ELSE IF a.file THEN "file" ELSE "usage"

\* createUsersTable without its try/catch: a failed query is thrown to main
createUsersTable_noCatch(err) ==
  /\ pc = "main_try"
  /\ Branch(argv) = "create"
  /\ err \in CreateOutcomes(tableExists)
  /\ stmts' = Append(stmts, Stmt("create", NoUser, err))
  /\ IF err = "none"
       THEN /\ usersTable' = CreateTableIfNotExists(tableExists, usersTable)
            /\ tableExists' = TRUE
            /\ log' = Append(log, Entry("log", "Users table created/rebuilt successfully.", <<>>))
            /\ UNCHANGED thrown
       ELSE /\ UNCHANGED << usersTable, tableExists, log >>
            /\ thrown' = TRUE
  /\ pc' = "finally"
  /\ UNCHANGED << argv, exit, conn, connectAttempts, endCalls, autoInc, snapshot,
                  stream, idx, promise, runs, aux >>

\* createUsersTable: the query succeeds or fails; either way the function
\* returns normally (the catch logs and swallows the error)
createUsersTable(err) ==
  /\ pc = "main_try"
  /\ Branch(argv) = "create"
  /\ err \in CreateOutcomes(tableExists)
  /\ stmts' = Append(stmts, Stmt("create", NoUser, err))
  /\ IF err = "none"
       THEN /\ usersTable' = CreateTableIfNotExists(tableExists, usersTable)
            /\ tableExists' = TRUE
            /\ log' = Append(log, Entry("log", "Users table created/rebuilt successfully.", <<>>))
       ELSE /\ UNCHANGED << usersTable, tableExists >>
            /\ log' = Append(log, ErrorEntry("Error creating table:", <<>>, err))
  /\ pc' = "finally"
  /\ UNCHANGED << argv, exit, conn, connectAttempts, endCalls, autoInc, snapshot,
                  stream, idx, promise, thrown, runs, aux >>

\* main's else branch: the usage line
PrintUsage ==
  /\ pc = "main_try"
  /\ Branch(argv) = "usage"
  /\ log' = Append(log, Entry("log", "Please provide the necessary command-line arguments.", <<>>))
  /\ pc' = "finally"
  /\ UNCHANGED << argv, exit, conn, connectAttempts, endCalls, db, snapshot,
                  stream, idx, promise, thrown, stmts, runs, aux >>

\* processCSVFile: the promise is made, the file stream is piped into csv()
\* and the three handlers are put on the stream pipe() returns
processCSVFile ==
  /\ pc = "main_try"
  /\ Branch(argv) = "file"
  /\ promise' = "pending"
  /\ pc' = "streaming"
  /\ UNCHANGED << argv, exit, conn, connectAttempts, endCalls, db, snapshot,
                  stream, idx, thrown, stmts, log, runs, aux >>

\* the 'data' handler throws a TypeError when a column is missing:
\* capitalize(undefined) and undefined.toLowerCase()
Throws(row) ==
  row.name = Undefined \/ row.surname = Undefined \/ row.email = Undefined

\* the record the 'data' handler builds from a row
Normalize(row) ==
  Row(capitalize(row.name), capitalize(row.surname), toLowerCase(row.email))

\* the 'data' handler skipping the validation in a dry run
Accumulate_dryKeepsAll(res, row) ==
  IF argv.dry_run \/ validateEmail(Normalize(row).email)
    THEN Append(res, Normalize(row)) ELSE res

\* the 'data' handler's effect on results
Accumulate(res, row) ==
  IF validateEmail(Normalize(row).email) THEN Append(res, Normalize(row)) ELSE res

\* the 'data' handler dropping an invalid row without a word
OnData_silent(row) ==
  /\ pc = "streaming"
  /\ Len(consumed) < MaxRows
  /\ consumed' = Append(consumed, row)
  /\ IF Throws(row)
       THEN /\ pc' = "exited"
            /\ exit' = "uncaught_exception"
            /\ UNCHANGED << results, log >>
       ELSE /\ results' = Accumulate(results, row)
            /\ UNCHANGED << pc, exit, log >>
  /\ UNCHANGED << argv, conn, connectAttempts, endCalls, db, snapshot, idx,
                  promise, thrown, streamErr, stmts, runs, aux >>

\* the 'data' handler, for one row of the file.  An exception it throws is
\* thrown into the stream's emit, where nothing catches it: the process dies
\* of an uncaught exception.
OnData(row) ==
  /\ pc = "streaming"
  /\ Len(consumed) < MaxRows
  /\ consumed' = Append(consumed, row)
  /\ IF Throws(row)
       THEN /\ pc' = "exited"
            /\ exit' = "uncaught_exception"
            /\ UNCHANGED << results, log >>
       ELSE /\ results' = Accumulate(results, row)
            /\ log' = IF validateEmail(Normalize(row).email) THEN log
                      ELSE Append(log, Entry("error", "Invalid email format:", Normalize(row).email))
            /\ UNCHANGED << pc, exit >>
  /\ UNCHANGED << argv, conn, connectAttempts, endCalls, db, snapshot, idx,
                  promise, thrown, streamErr, stmts, runs, aux >>

\* the 'end' handler without the test of dryRun
HandsToLoader_always(a) == TRUE

\* the 'end' handler's test of dryRun
HandsToLoader(a) == ~a.dry_run

\* the 'end' handler calling insertDataIntoDB without await: resolve() runs
\* before the first insert
OnEnd_noAwait ==
  /\ pc = "streaming"
  /\ IF HandsToLoader(argv)
       THEN /\ pc' = "inserting"
            /\ idx' = 1
            /\ promise' = "resolved"
            /\ UNCHANGED log
       ELSE /\ log' = log \o << Entry("log", "Dry run mode: No data inserted into the database.", <<>>),
                                Entry("log", "results", <<>>) >>
            /\ promise' = "resolved"
            /\ pc' = "finally"
            /\ UNCHANGED idx
  /\ UNCHANGED << argv, exit, conn, connectAttempts, endCalls, db, snapshot,
                  stream, thrown, stmts, runs, aux >>

\* the 'end' handler up to its await
OnEnd ==
  /\ pc = "streaming"
  /\ IF HandsToLoader(argv)
       THEN /\ pc' = "inserting"
            /\ idx' = 1
            /\ UNCHANGED << log, promise >>
       ELSE /\ log' = log \o << Entry("log", "Dry run mode: No data inserted into the database.", <<>>),
                                Entry("log", "results", <<>>) >>
            /\ promise' = "resolved"
            /\ pc' = "finally"
            /\ UNCHANGED idx
  /\ UNCHANGED << argv, exit, conn, connectAttempts, endCalls, db, snapshot,
                  stream, thrown, stmts, runs, aux >>

\* the 'error' handler, on the stream csv() returns: log and reject
OnError ==
  /\ pc = "streaming"
  /\ streamErr' = "parser"
  /\ log' = Append(log, Entry("error", "Error reading the CSV file:", <<>>))
  /\ promise' = "rejected"
  /\ thrown' = TRUE
  /\ pc' = "finally"
  /\ UNCHANGED << argv, exit, conn, connectAttempts, endCalls, db, snapshot,
                  consumed, results, idx, stmts, runs, aux >>

\* an 'error' event of fs.createReadStream's stream (the file cannot be
\* opened or read).  pipe() does not forward it and the script puts no
\* 'error' listener on that stream, so the event is thrown: the process dies
\* of an uncaught exception.
SourceError ==
  /\ pc = "streaming"
  /\ streamErr' = "source"
  /\ pc' = "exited"
  /\ exit' = "uncaught_exception"
  /\ UNCHANGED << argv, conn, connectAttempts, endCalls, db, snapshot,
                  consumed, results, idx, promise, thrown, stmts, log, runs, aux >>

\* insertDataIntoDB leaving the loop at the first failed execute
NextIndex_break(i, err, n) == IF err = "none" THEN i + 1 ELSE n + 1

\* insertDataIntoDB's loop: where it goes after an execute
NextIndex(i, err, n) == i + 1

\* the row an upsert (INSERT ... ON DUPLICATE KEY UPDATE) leaves in place of
\* the one holding the email
Upserted(table, user) ==
  [i \in 1..Len(table) |->
     IF table[i].email = user.email
       THEN [table[i] EXCEPT !.name = user.name, !.surname = user.surname]
       ELSE table[i]]

\* insertDataIntoDB with an upsert for its statement
InsertUser_upsert(err) ==
  /\ pc = "inserting"
  /\ idx <= Len(results)
  /\ err \in InsertOutcomes(tableExists, usersTable, results[idx])
  /\ stmts' = Append(stmts, Stmt("insert", results[idx], err))
  /\ IF err = "none"
       THEN /\ usersTable' = Append(usersTable,
                 [id |-> autoInc, name |-> results[idx].name,
                  surname |-> results[idx].surname, email |-> results[idx].email])
            /\ autoInc' = autoInc + 1
            /\ UNCHANGED log
       ELSE /\ log' = Append(log, ErrorEntry("Error inserting user:", results[idx].email, err))
            /\ usersTable' = IF err = "dup" THEN Upserted(usersTable, results[idx])
                             ELSE usersTable
            /\ UNCHANGED autoInc
  /\ idx' = NextIndex(idx, err, Len(results))
  /\ UNCHANGED << argv, pc, exit, conn, connectAttempts, endCalls, tableExists,
                  snapshot, stream, promise, thrown, runs, aux >>

\* insertDataIntoDB: one turn of the loop
InsertUser(err) ==
  /\ pc = "inserting"
  /\ idx <= Len(results)
  /\ err \in InsertOutcomes(tableExists, usersTable, results[idx])
  /\ stmts' = Append(stmts, Stmt("insert", results[idx], err))
  /\ IF err = "none"
       THEN /\ usersTable' = Append(usersTable,
                 [id |-> autoInc, name |-> results[idx].name,
                  surname |-> results[idx].surname, email |-> results[idx].email])
            /\ autoInc' = autoInc + 1
            /\ UNCHANGED log
       ELSE /\ log' = Append(log, ErrorEntry("Error inserting user:", results[idx].email, err))
            /\ UNCHANGED << usersTable, autoInc >>
  /\ idx' = NextIndex(idx, err, Len(results))
  /\ UNCHANGED << argv, pc, exit, conn, connectAttempts, endCalls, tableExists,
                  snapshot, stream, promise, thrown, runs, aux >>

\* insertDataIntoDB after the loop, and the 'end' handler's resolve()
InsertDone ==
  /\ pc = "inserting"
  /\ idx > Len(results)
  /\ log' = Append(log, Entry("log", "Data inserted successfully.", <<>>))
  /\ promise' = "resolved"
  /\ pc' = "finally"
  /\ UNCHANGED << argv, exit, conn, connectAttempts, endCalls, db, snapshot,
                  stream, idx, thrown, stmts, runs, aux >>

\* main's finally: connection.end(), then main returns or rethrows
Finally ==
  /\ pc = "finally"
  /\ conn' = "closed"
  /\ endCalls' = endCalls + 1
  /\ pc' = "exited"
  /\ exit' = IF thrown THEN "unhandled_rejection" ELSE "ok"
  /\ UNCHANGED << argv, connectAttempts, db, snapshot, stream, idx, promise,
                  thrown, stmts, log, runs, aux >>

Next ==
  \/ \E a \in Argvs : Invoke(a)
  \/ ConnectOk
  \/ ConnectFail
  \/ \E err \in {"none", "exists", "other"} : createUsersTable(err)
  \/ PrintUsage
  \/ processCSVFile
  \/ \E row \in RowPool : OnData(row)
  \/ OnEnd
  \/ OnError
  \/ SourceError
  \/ \E err \in {"none", "dup", "no_table", "other"} : InsertUser(err)
  \/ InsertDone
  \/ Finally

Spec == Init /\ [][Next]_vars

(* ------------------- one file, a dry run then a real run --------------- *)

\* the strings of at most n characters of a set
Strings(chars, n) == UNION {[1..k -> chars] : k \in 0..n}

\* the CSV files of at most MaxRows rows
Files == Strings(RowPool, MaxRows)

FileArgv(dry) == [create_table |-> FALSE, file |-> TRUE, dry_run |-> dry]

InitRerun ==
  /\ ProgramIdle
  /\ file \in Files
  /\ prevResults = <<>>
  /\ input = <<>>
  /\ rets = <<>>

\* node user_upload.js --file f --dry_run
InvokeDryRun ==
  /\ pc = "idle"
  /\ Start(FileArgv(TRUE))
  /\ UNCHANGED aux

\* once the dry run has ended normally: node user_upload.js --file f
InvokeRealRun ==
  /\ pc = "exited" /\ exit = "ok"
  /\ runs = 1
  /\ Start(FileArgv(FALSE))
  /\ prevResults' = results
  /\ UNCHANGED << file, input, rets >>

\* csv() emits the next row of the file
ReadRow ==
  /\ Len(consumed) < Len(file)
  /\ OnData(file[Len(consumed) + 1])

\* csv() has emitted every row of the file
ReadEnd ==
  /\ Len(consumed) = Len(file)
  /\ OnEnd

NextRerun ==
  \/ InvokeDryRun
  \/ InvokeRealRun
  \/ ConnectOk
  \/ ConnectFail
  \/ processCSVFile
  \/ ReadRow
  \/ ReadEnd
  \/ OnError
  \/ SourceError
  \/ \E err \in {"none", "dup", "no_table", "other"} : InsertUser(err)
  \/ InsertDone
  \/ Finally

SpecRerun == InitRerun /\ [][NextRerun]_vars

(* ------------------- the pure functions on their own ------------------- *)

EmailChars == {"a", "A", "@", ".", " "}
NameChars == {"a", "A", "s", "ß"}

\* the emails validateEmail is tried on: every short string, and the two
\* long examples "not-an-email" and "A@b.Com"
EmailInputs ==
  Strings(EmailChars, MaxEmailLen)
    \cup { << "n", "o", "t", "-", "a", "n", "-", "e", "m", "a", "i", "l" >>,
           << "A", "@", "b", ".", "C", "o", "m" >>,
           << "a", "@", "b" >> }

InitValidate ==
  /\ ProgramIdle
  /\ tableExists = FALSE
  /\ file = <<>>
  /\ prevResults = <<>>
  /\ input \in EmailInputs
  /\ rets = <<>>

\* the 'data' handler's  const email = data.email.toLowerCase();
\* if (validateEmail(email))
CallValidateEmail ==
  /\ rets = <<>>
  /\ rets' = << [email |-> toLowerCase(input),
                 valid |-> validateEmail(toLowerCase(input))] >>
  /\ UNCHANGED << argv, pc, exit, conn, connectAttempts, endCalls, db, snapshot,
                  stream, idx, promise, thrown, stmts, log, runs, file,
                  prevResults, input >>

SpecValidate == InitValidate /\ [][CallValidateEmail]_vars

InitCapitalize ==
  /\ ProgramIdle
  /\ tableExists = FALSE
  /\ file = <<>>
  /\ prevResults = <<>>
  /\ input \in (Strings(NameChars, MaxNameLen) \ {<<>>})
  /\ rets = <<>>

\* capitalize called on the string, then on what it returned
CallCapitalize ==
  /\ Len(rets) < 2
  /\ rets' = Append(rets, capitalize(IF rets = <<>> THEN input ELSE rets[Len(rets)]))
  /\ UNCHANGED << argv, pc, exit, conn, connectAttempts, endCalls, db, snapshot,
                  stream, idx, promise, thrown, stmts, log, runs, file,
                  prevResults, input >>

SpecCapitalize == InitCapitalize /\ [][CallCapitalize]_vars

(* ---------------------------- properties ------------------------------ *)

IsInsert(st) == st.op = "insert"
IsCreate(st) == st.op = "create"
Inserts == SelectSeq(stmts, IsInsert)
Creates == SelectSeq(stmts, IsCreate)
Logged(msg) == \E i \in 1..Len(log) : log[i].msg = msg

\* C1: in a dry-run invocation (file given, dry_run set) no insert statement
\* is ever issued on the connection, and the users table holds exactly the
\* rows it held when the invocation started.
C1_DryRunTouchesNothing ==
  (argv.file /\ argv.dry_run) => (Inserts = <<>> /\ usersTable = rowsAtStart)

\* a dry run that accepted records, over a table that exists and holds rows,
\* has run to its end
C1_Witness ==
  /\ pc = "exited" /\ exit = "ok"
  /\ argv.file /\ argv.dry_run /\ ~argv.create_table
  /\ Len(results) >= 2
  /\ tableExists /\ rowsAtStart # <<>>
  /\ Logged("Dry run mode: No data inserted into the database.")

\* C2: once a connection has been obtained it is released exactly once on
\* every exit path the claim lists: after create-table, after file
\* processing (completed, all inserts failed, or the CSV stream failed, an
\* unreadable CSV resource included) and in the no-action mode.
C2_ReleasedExactlyOnce ==
  /\ endCalls <= 1
  /\ (pc = "exited" /\ conn # "none"
        /\ (streamErr # "none" \/ exit # "uncaught_exception"))
       => (conn = "closed" /\ endCalls = 1)

\* C3: the Loader attempts exactly one insert per record of the accumulated
\* sequence, in sequence order, whatever inserts fail: the inserts issued so
\* far are for the first records of results, one each in order, and once
\* completion is reported (or the promise is resolved in a real run) every
\* record has been attempted.
C3_OneAttemptPerRecordInOrder ==
  /\ Len(Inserts) <= Len(results)
  /\ \A i \in 1..Len(Inserts) : Inserts[i].user = results[i]
  /\ pc = "inserting" => Len(Inserts) = idx - 1
  /\ Logged("Data inserted successfully.") => Len(Inserts) = Len(results)
  /\ (promise = "resolved" /\ ~argv.dry_run) =>
        (Len(Inserts) = Len(results) /\ Logged("Data inserted successfully."))

\* a batch of three was reported complete although its first insert failed
\* and a later one succeeded
C3_Witness ==
  /\ Logged("Data inserted successfully.")
  /\ Len(results) = 3
  /\ Len(Inserts) = 3
  /\ Inserts[1].err # "none"
  /\ Inserts[2].err = "none"

NoDuplicateEmails(table) ==
  \A i \in 1..Len(table) : \A j \in 1..Len(table) :
     table[i].email = table[j].email => i = j

HasRowOf(table, user) ==
  \E i \in 1..Len(table) :
     /\ table[i].name = user.name
     /\ table[i].surname = user.surname
     /\ table[i].email = user.email

\* C4: no two rows of the users table ever have the same email.  Within a
\* batch, an insert is refused as a duplicate only when its email is already
\* in the table (it was there at the start or an earlier insert of the batch
\* put it there), so the first of two records with a new email succeeds
\* unless another database error hits it; every insert of an email after a
\* successful one fails; the row of a successful insert stays in the table;
\* and the batch runs to completion.
C4_DuplicateEmails ==
  /\ NoDuplicateEmails(usersTable)
  /\ \A i \in 1..Len(Inserts) :
        /\ Inserts[i].err = "dup" =>
              \/ Inserts[i].user.email \in Emails(rowsAtStart)
              \/ \E j \in 1..(i - 1) :
                    /\ Inserts[j].err = "none"
                    /\ Inserts[j].user.email = Inserts[i].user.email
        /\ (\E j \in 1..(i - 1) :
               /\ Inserts[j].err = "none"
               /\ Inserts[j].user.email = Inserts[i].user.email)
              => Inserts[i].err # "none"
        /\ Inserts[i].err = "none" => HasRowOf(usersTable, Inserts[i].user)
  /\ (exit = "ok" /\ Branch(argv) = "file" /\ ~argv.dry_run) =>
        Len(Inserts) = Len(results)

\* a finished batch with two records of one email the table did not hold:
\* the first went in, the second was refused, the first's row is there
C4_Witness ==
  /\ pc = "exited" /\ exit = "ok"
  /\ Len(results) >= 2
  /\ results[1].email = results[2].email
  /\ results[1].name # results[2].name
  /\ results[1].email \notin Emails(rowsAtStart)
  /\ Len(Inserts) = Len(results)
  /\ Inserts[1].err = "none"
  /\ Inserts[2].err = "dup"
  /\ HasRowOf(usersTable, results[1])
  /\ ~HasRowOf(usersTable, results[2])

\* C5: on a stream-level failure of the CSV source (unreadable resource or
\* malformed CSV) the promise of processCSVFile is rejected, so the failure
\* reaches main, and no insert is attempted.
C5_StreamFailureRejects ==
  streamErr # "none" => (promise = "rejected" /\ thrown /\ Inserts = <<>>)

\* C6: each invocation performs exactly one primary action by precedence:
\* with create_table only the create-table statement is issued and no row is
\* read or inserted, file or no file; otherwise with a file only the file is
\* processed; with neither the usage line is printed and no statement is
\* issued.
C6_OnePrimaryAction ==
  /\ argv.create_table =>
        /\ Len(stmts) <= 1
        /\ Inserts = <<>>
        /\ consumed = <<>> /\ results = <<>> /\ promise = "none"
        /\ ~Logged("Please provide the necessary command-line arguments.")
        /\ pc \in {"finally", "exited"} /\ exit # "connect_failed" => Len(Creates) = 1
  /\ (~argv.create_table /\ argv.file) =>
        /\ Creates = <<>>
        /\ ~Logged("Please provide the necessary command-line arguments.")
        /\ pc \in {"finally", "exited"} /\ exit # "connect_failed" => promise # "none"
  /\ (~argv.create_table /\ ~argv.file) =>
        /\ stmts = <<>>
        /\ consumed = <<>> /\ results = <<>> /\ promise = "none"
        /\ pc = "finally" => Logged("Please provide the necessary command-line arguments.")

\* an invocation with both create_table and a file has ended: it issued the
\* one create-table statement and read nothing
C6_Witness ==
  /\ pc = "exited" /\ exit = "ok"
  /\ argv.create_table /\ argv.file
  /\ Len(stmts) = 1 /\ stmts[1].op = "create"
  /\ consumed = <<>>

\* the records a sequence of rows should leave in results: in file order,
\* the rows whose lower-cased email is valid, name and surname capitalized
RECURSIVE AcceptedOf(_)
AcceptedOf(rows) ==
  IF rows = <<>> THEN <<>>
  ELSE LET r == Head(rows)
           e == toLowerCase(r.email)
       IN (IF validateEmail(e)
             THEN << Row(capitalize(r.name), capitalize(r.surname), e) >>
             ELSE <<>>) \o AcceptedOf(Tail(rows))

\* first character not a lower-case letter, no upper-case letter after it
IsCapitalized(str) ==
  /\ str # <<>> => str[1] \notin LowerLetters
  /\ \A i \in 2..Len(str) : str[i] \notin UpperLetters

IsLowerCased(str) == \A i \in 1..Len(str) : str[i] \notin UpperLetters

\* the 'end' event has been handled
StreamExhausted == streamErr = "none" /\ (pc = "inserting" \/ promise = "resolved")

\* C7: while the stream runs and when it is exhausted, the accumulated
\* sequence is, in file order, exactly the normalized records of the rows
\* read whose lower-cased email passes validation: names and surnames are
\* capitalized, emails lower-cased and valid, and a rejected row neither
\* appears nor keeps a later row out.
C7_AccumulatedIsAcceptedInOrder ==
  (pc = "streaming" \/ StreamExhausted) =>
     /\ results = AcceptedOf(consumed)
     /\ \A i \in 1..Len(results) :
           /\ IsCapitalized(results[i].name)
           /\ IsCapitalized(results[i].surname)
           /\ IsLowerCased(results[i].email)
           /\ validateEmail(results[i].email)
     /\ \A i \in 1..Len(consumed) :
           consumed[i] = Row(<<"a", "B">>, <<"B", "a">>, <<"A", "@", "b", ".", "c">>)
             => \E k \in 1..Len(results) :
                   results[k] = Row(<<"A", "b">>, <<"B", "a">>, <<"a", "@", "b", ".", "c">>)

\* a file of three rows whose second was rejected has been read to its end:
\* the first and the third are the accumulated sequence, in that order
C7_Witness ==
  /\ StreamExhausted
  /\ Len(consumed) = 3
  /\ ~validateEmail(toLowerCase(consumed[2].email))
  /\ Len(results) = 2
  /\ results[1] = Row(<<"A", "b">>, <<"B", "a">>, <<"a", "@", "b", ".", "c">>)
  /\ results[2].name = <<"B">>

C9_CreateTableReplaces ==
  (argv.create_table /\ existsAtStart /\ Len(Creates) = 1 /\ Creates[1].err = "none")
     => usersTable = <<>>

\* C10: a failed connection attempt ends the process at once with a non-zero
\* status: one attempt only, no statement, no row read, no insert, and
\* nothing of main's try or finally runs.
C10_ConnectFailureIsFatal ==
  /\ connectAttempts <= 1
  /\ (Logged("Error connecting to the database:") \/ exit = "connect_failed") =>
        /\ pc = "exited"
        /\ exit = "connect_failed"
        /\ ExitCode(exit) # 0
        /\ connectAttempts = 1
        /\ stmts = <<>>
        /\ consumed = <<>> /\ results = <<>> /\ promise = "none"
        /\ conn = "none" /\ endCalls = 0
        /\ usersTable = rowsAtStart /\ tableExists = existsAtStart

\* an invocation that was to load a file ended on the failed connection
C10_Witness ==
  /\ exit = "connect_failed"
  /\ argv.file /\ ~argv.dry_run /\ ~argv.create_table
  /\ connectAttempts = 1

\* C11: when the create-table statement fails, the failure is logged and
\* nothing is thrown out of createUsersTable: no row is read, no insert is
\* attempted, the table is as it was, and the run ends normally (the
\* connection ended, exit status 0).
C11_CreateFailureIsLoggedOnly ==
  (Len(Creates) >= 1 /\ Creates[1].err # "none") =>
     /\ Logged("Error creating table:")
     /\ ~thrown
     /\ consumed = <<>> /\ results = <<>> /\ promise = "none"
     /\ Inserts = <<>>
     /\ usersTable = rowsAtStart /\ tableExists = existsAtStart
     /\ pc \in {"finally", "exited"}
     /\ exit \in {"none", "ok"}
     /\ pc = "exited" => (exit = "ok" /\ ExitCode(exit) = 0 /\ conn = "closed")

\* an invocation with create_table and a file has ended normally after its
\* create-table statement failed
C11_Witness ==
  /\ pc = "exited" /\ exit = "ok"
  /\ argv.create_table /\ argv.file
  /\ Len(Creates) = 1 /\ Creates[1].err = "other"
  /\ Logged("Error creating table:")

\* C13: a row whose name or surname is the empty string is rejected
\* (EmptyField): it is never appended to the accumulated sequence and never
\* inserted.
C13_EmptyFieldRejected ==
  /\ \A k \in 1..Len(results) :
        results[k].name # <<>> /\ results[k].surname # <<>>
  /\ \A k \in 1..Len(usersTable) :
        usersTable[k].name # <<>> /\ usersTable[k].surname # <<>>

\* C15: no exception crosses the per-row handler: a row with a missing
\* name, surname or email is skipped and the run goes on; it never ends the
\* run with an uncaught exception.
C15_NoExceptionFromRowHandler ==
  \A i \in 1..Len(consumed) :
     Throws(consumed[i]) => ~(pc = "exited" /\ exit = "uncaught_exception")

\* the lower-cased emails of the rows the handler rejected, in file order
RECURSIVE RejectedEmails(_)
RejectedEmails(rows) ==
  IF rows = <<>> THEN <<>>
  ELSE LET r == Head(rows)
       IN (IF ~Throws(r) /\ ~validateEmail(toLowerCase(r.email))
             THEN << toLowerCase(r.email) >> ELSE <<>>) \o RejectedEmails(Tail(rows))

IsFailed(st) == st.op = "insert" /\ st.err # "none"
FailedInserts == SelectSeq(stmts, IsFailed)
IsInvalidEntry(en) == en.msg = "Invalid email format:"
IsInsertErrorEntry(en) == en.msg = "Error inserting user:"
InvalidEntries == SelectSeq(log, IsInvalidEntry)
InsertErrorEntries == SelectSeq(log, IsInsertErrorEntry)

\* C17: nothing is silently swallowed: the 'Invalid email format' lines of
\* the log are, one for one and in order, the rows rejected for their email,
\* each carrying the lower-cased email; the 'Error inserting user' lines are,
\* one for one and in order, the failed inserts, each carrying the record's
\* email and the error; so there are as many such lines as rejected rows
\* plus failed inserts.
C17_EveryRejectionAndFailureLogged ==
  /\ Len(InvalidEntries) = Len(RejectedEmails(consumed))
  /\ \A i \in 1..Len(InvalidEntries) :
        /\ InvalidEntries[i].arg = RejectedEmails(consumed)[i]
        /\ InvalidEntries[i].level = "error"
  /\ Len(InsertErrorEntries) = Len(FailedInserts)
  /\ \A i \in 1..Len(InsertErrorEntries) :
        /\ InsertErrorEntries[i].arg = FailedInserts[i].user.email
        /\ InsertErrorEntries[i].err = FailedInserts[i].err
        /\ InsertErrorEntries[i].level = "error"
  /\ Len(InvalidEntries) + Len(InsertErrorEntries)
        = Len(RejectedEmails(consumed)) + Len(FailedInserts)

\* a finished run with a rejected row and a failed insert, both in the log
C17_Witness ==
  /\ pc = "exited" /\ exit = "ok"
  /\ Len(RejectedEmails(consumed)) = 1
  /\ Len(FailedInserts) = 1 /\ FailedInserts[1].err = "dup"
  /\ Len(InvalidEntries) = 1 /\ Len(InsertErrorEntries) = 1

ResultEmails == {results[k].email : k \in 1..Len(results)}

\* what C18 asks of one step
C18_Step ==
  /\ Len(usersTable') \in {Len(usersTable), Len(usersTable) + 1}
  /\ \A i \in 1..Len(usersTable) : usersTable'[i] = usersTable[i]
  /\ Len(usersTable') > Len(usersTable) =>
        /\ Len(stmts') = Len(stmts) + 1
        /\ stmts'[Len(stmts')].op = "insert"
        /\ stmts'[Len(stmts')].err = "none"
        /\ HasRowOf(<< usersTable'[Len(usersTable')] >>, stmts'[Len(stmts')].user)
  /\ (Len(stmts') = Len(stmts) + 1 /\ stmts'[Len(stmts')].op = "insert") =>
        IF stmts'[Len(stmts')].err = "none"
          THEN Len(usersTable') = Len(usersTable) + 1
          ELSE usersTable' = usersTable
  /\ (exit' = "ok" /\ Branch(argv') = "file" /\ ~argv'.dry_run
        /\ \A i \in 1..Len(stmts') : stmts'[i].err \in {"none", "dup"}) =>
        Emails(usersTable') = Emails(rowsAtStart') \cup ResultEmails'

\* C18: no step updates or deletes a row of the users table: every row
\* stays as it is, a failed insert leaves the table as it was, a successful
\* insert adds exactly one row (the record's); and after a real file run
\* whose only insert failures were uniqueness violations the emails in the
\* table are those present before plus those of the accumulated records.
C18_InsertOnly == [][C18_Step]_vars

\* a real file run over a table that held rows has ended: one insert was
\* refused as a duplicate, another added a row, nothing else failed
C18_Witness ==
  /\ pc = "exited" /\ exit = "ok"
  /\ Branch(argv) = "file" /\ ~argv.dry_run
  /\ rowsAtStart # <<>>
  /\ Len(Inserts) >= 2
  /\ \A i \in 1..Len(stmts) : stmts[i].err \in {"none", "dup"}
  /\ \E i \in 1..Len(stmts) : stmts[i].err = "dup"
  /\ Len(usersTable) > Len(rowsAtStart)
  /\ Emails(usersTable) = Emails(rowsAtStart) \cup ResultEmails

\* what C19 asks of one step
C19_Step ==
  /\ Len(stmts') > Len(stmts) => (conn = "open" /\ conn' = "open")
  /\ (conn = "closed" /\ runs' = runs) => stmts' = stmts
  /\ Len(Inserts') > Len(Inserts) =>
        /\ pc = "inserting"
        /\ streamErr = "none"
        /\ promise = "pending" /\ promise' = "pending"
  /\ (pc = "inserting" \/ Inserts # <<>>) /\ runs' = runs =>
        (consumed' = consumed /\ results' = results)
  /\ (promise # "resolved" /\ promise' = "resolved" /\ ~argv.dry_run) =>
        (Len(Inserts) = Len(results) /\ stmts' = stmts)
  /\ (conn = "open" /\ conn' = "closed") =>
        /\ promise # "pending"
        /\ (promise = "resolved" /\ ~argv.dry_run) => Len(Inserts) = Len(results)

\* C19: in a real file run the phases are ordered: inserts are attempted
\* only after the 'end' handler has run (no row is read afterwards), the
\* promise is resolved only after the last insert attempt, the connection
\* is ended only after the promise is settled, and no statement is issued
\* on an ended connection.
C19_PhasesOrdered == [][C19_Step]_vars

\* a real file run with three insert attempts has ended and its connection
\* is closed
C19_Witness ==
  /\ pc = "exited" /\ exit = "ok" /\ conn = "closed"
  /\ Branch(argv) = "file" /\ ~argv.dry_run
  /\ Len(consumed) = 3
  /\ Len(Inserts) = 3
  /\ promise = "resolved"

\* C12: for any input file a dry run and a real run accumulate the
\* identical record sequence: when the real run of the file the dry run
\* read has handled 'end', its results are the dry run's, record for record.
C12_DryRunAccumulatesTheSame ==
  /\ (runs = 2 /\ StreamExhausted) => results = prevResults
  /\ (runs = 2 /\ pc = "streaming") =>
        (Len(results) <= Len(prevResults)
           /\ results = SubSeq(prevResults, 1, Len(results)))

\* the real run of a three-row file with a rejected row has ended, holding
\* the two records the dry run held
C12_Witness ==
  /\ runs = 2 /\ pc = "exited" /\ exit = "ok"
  /\ ~argv.dry_run
  /\ Len(file) = 3 /\ consumed = file
  /\ Len(results) = 2
  /\ results = prevResults
  /\ Len(Inserts) = 2

AtSigns(e) == {i \in 1..Len(e) : e[i] = "@"}
TheAt(e) == CHOOSE i \in AtSigns(e) : TRUE
LocalPart(e) == SubSeq(e, 1, TheAt(e) - 1)
Domain(e) == SubSeq(e, TheAt(e) + 1, Len(e))

\* local-part@domain: one '@', no whitespace, a non-empty local part
HasLocalAndDomain(e) ==
  /\ Cardinality(AtSigns(e)) = 1
  /\ \A i \in 1..Len(e) : e[i] \notin Whitespace
  /\ LocalPart(e) # <<>>

\* the domain holds two non-empty labels: two characters that are no dots
\* with a dot somewhere between them
TwoNonEmptyLabels(d) ==
  \E p \in 1..Len(d) : \E q \in 1..Len(d) : \E j \in 1..Len(d) :
     p < j /\ j < q /\ d[p] # "." /\ d[q] # "." /\ d[j] = "."

\* the domain holds a dot that is neither its first nor its last character
InnerDot(d) == \E j \in 2..(Len(d) - 1) : d[j] = "."

\* C14 as stated: a record is accepted only if its lower-cased email is
\* local-part@domain with no whitespace and a single '@', where the domain
\* holds a '.' separating at least two non-empty labels.
C14_AcceptedOnlyWithTwoLabels ==
  (rets # <<>> /\ rets[1].valid) =>
     (HasLocalAndDomain(rets[1].email) /\ TwoNonEmptyLabels(Domain(rets[1].email)))

\* C14 amended: the string validated is the lower-cased email, and it is
\* accepted exactly when it is local-part@domain with no whitespace, a
\* single '@', a non-empty local part, and a domain holding a '.' that is
\* neither its first nor its last character (what stands on either side of
\* that dot may itself be dots); "not-an-email" and "a@b" are rejected.
C14_AcceptedIffInnerDot ==
  rets # <<>> =>
     /\ rets[1].email = toLowerCase(input)
     /\ IsLowerCased(rets[1].email)
     /\ rets[1].valid <=>
           (HasLocalAndDomain(rets[1].email) /\ InnerDot(Domain(rets[1].email)))
     /\ input = << "a", "@", "b" >> => ~rets[1].valid
     /\ Len(input) = 12 => ~rets[1].valid
     /\ input = << "A", "@", "b", ".", "C", "o", "m" >> =>
           (rets[1].valid /\ rets[1].email = << "a", "@", "b", ".", "c", "o", "m" >>)

\* an email given in upper case was accepted in its lower-cased form although
\* its domain has a single non-empty label
C14_Witness ==
  /\ rets # <<>>
  /\ rets[1].valid
  /\ input # rets[1].email
  /\ ~TwoNonEmptyLabels(Domain(rets[1].email))

\* C16: capitalize is idempotent on every string of length at least 1:
\* capitalize(capitalize(s)) = capitalize(s).
C16_CapitalizeIdempotent ==
  Len(rets) = 2 => rets[2] = rets[1]

====
